---- MODULE Spec2Model ----
(***************************************************************************)
(* Task lifecycle engine of agent-task-manager: the tasks table, the HTTP  *)
(* handlers that create, claim, complete, fail and cancel tasks, and the   *)
(* transactions they run against PostgreSQL through gorm.io/gorm.          *)
(*                                                                         *)
(* Every SQL statement of a handler is one step.  A handler that runs in   *)
(* a transaction (db.Begin ... tx.Commit) keeps its writes in pend until   *)
(* the commit; a row written by an open transaction is locked against      *)
(* other writers.  Reads are READ COMMITTED (the PostgreSQL default, the   *)
(* code sets no isolation level): a statement sees the committed rows and  *)
(* the transaction's own writes.  CreateTaskHandler uses database.GetDB()  *)
(* directly, so each of its statements commits by itself.                  *)
(*                                                                         *)
(* SpecSerial serves the requests one at a time.  Spec serves requests     *)
(* one at a time for as long as it likes and then a burst of MaxReqs       *)
(* requests at once, their statements interleaved in every order.          *)
(***************************************************************************)
EXTENDS Integers, Sequences, FiniteSets, TLC

\* ---------------------------------------------------------------- bounds
MaxTasks == 3
MaxBurstTasks == 2
MaxReqs == 2
NumActors == 2
NumCreators == 1
MaxNow == 2
MaxBackgroundTasks == 1
NumKeys == 2

Ids == 1..MaxTasks
Reqs == 1..MaxReqs
Actors == 1..NumActors
\* The actors that send create requests.
Creators == 1..NumCreators
\* The client IPs that call /generate-jwt.
Keys == 1..NumKeys
NULL == 0

\* ------------------------------------------------- models.TaskStatus
StatusFailed == "failed"
StatusCanceled == "canceled"
StatusCompleted == "completed"
StatusSubmitted == "submitted"
StatusWorking == "working"
StatusWaiting == "waiting"

ActiveStatuses == {StatusSubmitted, StatusWorking, StatusWaiting}
DoneStatuses_WithFailed == {StatusCompleted, StatusCanceled, StatusFailed}

\* The statuses the rollup counts: completed and canceled.
DoneStatuses == {StatusCompleted, StatusCanceled}

isParentStatusAllowed_Any(status) == TRUE

\* isParentStatusAllowed(status)
isParentStatusAllowed(status) == status \in {StatusWaiting, StatusWorking, StatusSubmitted}

\* The default retention, time.Now().AddDate(0, 3, 0): longer than the time
\* that passes here.
ThreeMonths == MaxNow + 1

\* The result texts the handlers write.
DescriptionText == "what to do"
NoResult == "none"
ResultText == "done"
FailureResult == "FAILURE REASON: why"

\* ------------------------------------------------------------ the store
\* A models.Task row.  ID stands for the random UUID (its order is the
\* order of the primary key), CreatedAt for the insertion time.
NoTask == [ID |-> NULL]

NoPend == [owner |-> 0, row |-> NoTask]

\* A request slot: one HTTP request being served by a handler goroutine.
Idle ==
  [op |-> "none", pc |-> "idle", actor |-> 0, arg |-> NULL, task |-> NoTask,
   todo |-> <<>>, subs |-> {}, total |-> 0, parentTask |-> NoTask, res |-> "none",
   at |-> "none", errs |-> FALSE]

NoSweep == [pc |-> "idle", now |-> 0]
NoSync == [pc |-> "idle", users |-> {}]

\* NewTaskCleanupScheduler and InitUsersCache: both channels made and open,
\* no syncTicker, no periodic sync started; the sweeper's goroutine is in
\* Start before its first cleanup.  A loop is "running" in its select or in
\* the work of a tick, "woken" when a tick found it blocked in the select,
\* "exited" when it has returned; due: the ticker's channel holds a tick.
NoSched == [stopChan |-> "open", loop |-> "start", due |-> FALSE,
            stopSync |-> "open", syncTicker |-> "nil", syncLoop |-> "none",
            syncDue |-> FALSE]

VARIABLES
  db,        \* committed rows of table tasks: Ids -> row or NoTask
  pend,      \* uncommitted row versions and their owner transaction
  req,       \* the request slots
  clock,     \* number of rows inserted so far (source of CreatedAt)
  notified,  \* (task_id, assignee) messages pushed to the Redis queue
  phase,     \* "serial": one request at a time; "burst": concurrent requests;
             \* "sweep": requests and the sweeper; "index": requests and the cache
  db0,       \* the committed rows when the burst began
  now,       \* time.Now()
  sweep,     \* the cleanup goroutine: where it is, and the now it computed
  gone,      \* the rows the sweeper has deleted, as they were
  index,     \* usersCache.users
  sync,      \* a running SyncUsersWithTasks: where it is, and the users it read
  main,      \* where func main is: serving, or a step of its shutdown
  requests,  \* RateLimiter.requests: key -> the times of the requests it let pass
  admitted,  \* per key and time, the requests the middleware passed to c.Next()
  sched      \* the stop channels, the tickers and the loops of the two
             \* background goroutines

\* The clock and the background goroutines (sweeper, cache).
\* func main and the rate limiter of /generate-jwt.
aux == <<main, requests, admitted, sched>>

bg == <<now, sweep, gone, index, sync, aux>>

vars == <<db, pend, req, clock, notified, phase, db0, bg>>

\* The task a create builds when the request gives no delete_at:
\* deleteAt = time.Now().AddDate(0, 3, 0).
NewTask(actor, assignee, parent) ==
  [ID |-> NULL, CreatedAt |-> 0, DeleteAt |-> now + ThreeMonths, CreatedBy |-> actor,
   Assignee |-> assignee, Description |-> DescriptionText, RootTaskID |-> NULL,
   ParentTaskID |-> parent, Result |-> NoResult, Status |-> StatusSubmitted]

\* if req.DeleteAt != nil { task.DeleteAt = req.DeleteAt }
WithDeleteAt(task, deleteAt) ==
  IF deleteAt = NULL THEN task ELSE [task EXCEPT !.DeleteAt = deleteAt]

\* A time before the process started.
Past == 0 - 1

\* The delete_at a request can carry: none, or a time within the horizon.
DeleteAtChoices ==
  IF phase \in {"sweep", "background"} THEN {NULL} \cup (1..(MaxNow - 1))
  ELSE IF phase = "stop" THEN {NULL, Past}
  ELSE {NULL}

\* Whether the RPush of a notification succeeds; the runs that look at
\* failures ("fault") have both outcomes.
NotifyOutcomes == IF phase = "fault" THEN {TRUE, FALSE} ELSE {TRUE}

\* The process is alive: func main has not returned and no goroutine has
\* panicked.
Running == main \notin {"exited", "panicked"}

\* database.CloseDB() has not been called.
DbOpen == main \in {"serving", "shutdown", "closedb"}

Min(S) == CHOOSE k \in S : \A j \in S : k <= j

Exists(store, k) == store[k] # NoTask
Rows(store) == {k \in Ids : Exists(store, k)}

InFlight(r) == req[r].pc \notin {"idle", "done"}

\* What a statement of transaction r reads for row k.
View(r) == [k \in Ids |-> IF pend[k].owner = r THEN pend[k].row ELSE db[k]]

\* Row k can be written by r: no other open transaction has written it.
\* r = 0 is a statement outside any transaction.
Writable(r, k) == pend[k].owner \in {0, r}

\* db.Save(&task): UPDATE of every column WHERE id = task.ID, and an
\* INSERT ... ON CONFLICT DO UPDATE when no row matched.
Save(store, row) == [store EXCEPT ![row.ID] = row]

\* The foreign keys of a row to insert: the parent and the root it names
\* are rows of the table (a row may name itself).
ForeignKeysHold(store, row) ==
  /\ row.ParentTaskID = NULL \/ Exists(store, row.ParentTaskID)
  /\ row.RootTaskID \in {NULL, row.ID} \/ Exists(store, row.RootTaskID)

\* tx.Save(&task) fails: the UPDATE matched no row (the row was deleted) and
\* the INSERT that Save falls back to names a parent or root that is gone.
SaveFails(r, task) == ~Exists(View(r), task.ID) /\ ~ForeignKeysHold(View(r), task)

UpdateStatus_Skipped(store, k, s) == store

\* db.Model(&Task{}).Where("id = ?", k).Update("status", s): no row, no change.
UpdateStatus(store, k, s) ==
  IF Exists(store, k) THEN [store EXCEPT ![k].Status = s] ELSE store

\* redis.SendTaskNotification(taskID, assignee)
SendTaskNotification(k, assignee) == notified \cup {[task |-> k, assignee |-> assignee]}

\* A request starts in a slot.
Start(op, actor, arg) == [Idle EXCEPT !.op = op, !.actor = actor, !.arg = arg]

\* The slot after the handler of request st has written its response
\* (c.JSON) and returned.  A slot of a burst keeps the request it served and
\* the task it answered with (at: the statement it ended at); otherwise only
\* the kind of the response stays.
Respond(st, res, task) ==
  IF phase = "burst"
  THEN [Start(st.op, st.actor, st.arg) EXCEPT !.pc = "done", !.res = res,
                                              !.task = task, !.at = st.pc]
  ELSE [Idle EXCEPT !.pc = "done", !.res = res]

\* The empty table after database.InitDB, no request being served.
Empty ==
  /\ db = [k \in Ids |-> NoTask]
  /\ pend = [k \in Ids |-> NoPend]
  /\ req = [r \in Reqs |-> Idle]
  /\ clock = 0
  /\ notified = {}
  /\ db0 = db
  /\ now = 0
  /\ sweep = NoSweep
  /\ gone = [k \in Ids |-> NoTask]
  /\ index = {}
  /\ sync = NoSync
  /\ main = "serving"
  /\ requests = [key \in Keys |-> <<>>]
  /\ admitted = [key \in Keys |-> [t \in 0..MaxNow |-> 0]]
  /\ sched = NoSched

Init == Empty /\ phase = "prefix"

InitSerial == Empty /\ phase = "serial"

\* The rows a run inserts at most.
Cap == IF phase = "serial" THEN MaxTasks
       ELSE IF phase \in {"background", "stop"} THEN MaxBackgroundTasks
       ELSE MaxBurstTasks

\* The UUIDs a new row can get: uuid.New() is random, any unused one.
FreshIds == (1..Cap) \ (Rows(db) \cup Rows(gone))

\* The client has read the response: the slot is free again.  The slots of
\* a burst serve one request each.
Return(r) ==
  /\ req[r].pc = "done"
  /\ phase # "burst"
  /\ req' = [req EXCEPT ![r] = Idle]
  /\ UNCHANGED <<db, pend, clock, notified, phase, db0, bg>>

\* The requests from here on are served concurrently.
Burst ==
  /\ phase = "prefix"
  /\ \A r \in Reqs : req[r].pc = "idle"
  /\ phase' = "burst"
  /\ db0' = db
  /\ UNCHANGED <<db, pend, req, clock, notified, bg>>

\* The runs that keep requests and the synchronisation of the cache apart.
Apart == phase # "resync"

\* A new request is served by the first free slot (slots are
\* interchangeable); outside a burst only when no other is being served, and
\* (in the runs that keep them apart) not while the cache is being
\* synchronised.
Free(r) ==
  /\ req[r].pc = "idle"
  /\ main = "serving"
  /\ Apart => sync.pc = "idle"
  /\ \A q \in Reqs : q < r => req[q].pc # "idle"
  /\ phase # "burst" => r = 1

\* ------------------------------------------------- CreateTaskHandler
\* Rows that exist or that a running create is still going to insert.
Reserved == Cardinality(Rows(db) \cup Rows(gone)) +
            Cardinality({q \in Reqs : req[q].pc = "create_insert"})

\* A create request with a parent_task_id, up to the status check:
\* db.First(&parentTask, "id = ?", req.ParentTaskID), isParentStatusAllowed,
\* task.RootTaskID = parentTask.RootTaskID.
CreateReadParent(r, actor, assignee, parent) ==
  /\ Free(r)
  /\ Reserved < Cap
  /\ parent # NULL
  /\ LET parentTask == db[parent]
     IN IF ~Exists(db, parent) \/ ~isParentStatusAllowed(parentTask.Status)
        THEN req' = [req EXCEPT ![r] =
               Respond(Start("create", actor, parent), "validation", NoTask)]
        ELSE \E deleteAt \in DeleteAtChoices :
             req' = [req EXCEPT ![r] =
               [Start("create", actor, parent) EXCEPT
                  !.pc = "create_insert",
                  !.task = [WithDeleteAt(NewTask(actor, assignee, parent), deleteAt) EXCEPT
                              !.RootTaskID = IF parentTask.RootTaskID = NULL
                                             THEN parentTask.ID
                                             ELSE parentTask.RootTaskID]]]
  /\ UNCHANGED <<db, pend, clock, notified, phase, db0, bg>>

Insert_NotifyFatal(r, k, new) ==
  LET task == [new EXCEPT !.ID = k, !.CreatedAt = clock + 1]
  IN IF ~ForeignKeysHold(db, task)
     THEN /\ req' = [req EXCEPT ![r] =
               Respond(Start("create", task.CreatedBy, task.ParentTaskID), "infra", NoTask)]
          /\ UNCHANGED <<db, clock, notified>>
     ELSE \E sent \in NotifyOutcomes :
          IF sent
          THEN /\ db' = [db EXCEPT ![k] = task]
               /\ clock' = clock + 1
               /\ notified' = SendTaskNotification(k, task.Assignee)
               /\ req' = [req EXCEPT ![r] =
                    [Start("create", task.CreatedBy, task.ParentTaskID) EXCEPT
                       !.task = task,
                       !.pc = IF task.ParentTaskID = NULL THEN "create_root"
                              ELSE "create_wait"]]
          ELSE /\ req' = [req EXCEPT ![r] =
                    [Respond(Start("create", task.CreatedBy, task.ParentTaskID),
                             "infra", NoTask) EXCEPT !.errs = TRUE]]
               /\ UNCHANGED <<db, clock, notified>>

\* db.Create(&task) with a fresh UUID k, then redis.SendTaskNotification,
\* whose error is put in c.Errors and otherwise ignored.
\* The insert fails when the parent or root it names is no row any more.
Insert(r, k, new) ==
  LET task == [new EXCEPT !.ID = k, !.CreatedAt = clock + 1]
  IN IF ~ForeignKeysHold(db, task)
     THEN \* foreign keys tasks.parent_task_id, tasks.root_task_id -> tasks.id
          /\ req' = [req EXCEPT ![r] =
               Respond(Start("create", task.CreatedBy, task.ParentTaskID), "infra", NoTask)]
          /\ UNCHANGED <<db, clock, notified>>
     ELSE \E sent \in NotifyOutcomes :
          /\ db' = [db EXCEPT ![k] = task]
          /\ clock' = clock + 1
          /\ notified' = IF sent THEN SendTaskNotification(k, task.Assignee) ELSE notified
          /\ req' = [req EXCEPT ![r] =
               [Start("create", task.CreatedBy, task.ParentTaskID) EXCEPT
                  !.task = task,
                  !.errs = ~sent,
                  !.pc = IF task.ParentTaskID = NULL THEN "create_root"
                         ELSE "create_wait"]]

\* A create request without parent_task_id, up to the insert.
CreateRoot(r, actor, assignee) ==
  /\ Free(r)
  /\ Reserved < Cap
  /\ \E k \in FreshIds, deleteAt \in DeleteAtChoices :
       Insert(r, k, WithDeleteAt(NewTask(actor, assignee, NULL), deleteAt))
  /\ UNCHANGED <<pend, phase, db0, bg>>

\* The insert of a task that has a parent.
CreateChild(r) ==
  /\ req[r].pc = "create_insert"
  /\ \E k \in FreshIds : Insert(r, k, req[r].task)
  /\ UNCHANGED <<pend, phase, db0, bg>>

\* task.RootTaskID = &task.ID; db.Save(&task)
CreateSaveRoot(r) ==
  /\ req[r].pc = "create_root"
  /\ LET task == [req[r].task EXCEPT !.RootTaskID = req[r].task.ID]
     IN /\ Writable(0, task.ID)
        /\ db' = Save(db, task)
        /\ req' = [req EXCEPT ![r] = Respond(req[r], "ok", task)]
  /\ UNCHANGED <<pend, clock, notified, phase, db0, bg>>

\* db.Model(&Task{}).Where("id = ?", req.ParentTaskID).Update("status", waiting)
CreateParentWaiting(r) ==
  /\ req[r].pc = "create_wait"
  /\ Writable(0, req[r].arg)
  /\ db' = UpdateStatus(db, req[r].arg, StatusWaiting)
  /\ req' = [req EXCEPT ![r] = Respond(req[r], "ok", req[r].task)]
  /\ UNCHANGED <<pend, clock, notified, phase, db0, bg>>

\* A statement of the create fails (store unavailable): the handler answers
\* 500 and returns; what earlier statements wrote stays written.  Spec and
\* SpecSerial take the statements of a create to succeed: this is a step
\* of SpecFault only.
CreateError(r) ==
  /\ req[r].pc \in {"create_insert", "create_root", "create_wait"}
  /\ req' = [req EXCEPT ![r] = Respond(req[r], "infra", NoTask)]
  /\ UNCHANGED <<db, pend, clock, notified, phase, db0, bg>>

\* ------------------------------------------------------- transactions
\* tx.Rollback(): the rows written by r are dropped and unlocked.
Rollback(r) == [k \in Ids |-> IF pend[k].owner = r THEN NoPend ELSE pend[k]]

Commit_OnlyTask(r) ==
  [k \in Ids |-> IF pend[k].owner = r /\ k = req[r].task.ID THEN pend[k].row ELSE db[k]]

\* tx.Commit(): the rows written by r replace the committed ones.
Commit(r) == [k \in Ids |-> IF pend[k].owner = r THEN pend[k].row ELSE db[k]]

\* A statement of transaction r writes row (tx.Save, tx.Update).
Write(r, row) == [pend EXCEPT ![row.ID] = [owner |-> r, row |-> row]]

\* The handler answers with an error after tx.Rollback().
Abort(r, st, res) ==
  /\ pend' = Rollback(r)
  /\ req' = [req EXCEPT ![r] = Respond(st, res, NoTask)]
  /\ UNCHANGED <<db, clock, notified, phase, db0, bg>>

\* tx.Commit() and c.JSON(http.StatusOK, task)
TxCommit(r) ==
  /\ req[r].pc = "commit"
  /\ db' = Commit(r)
  /\ pend' = Rollback(r)
  /\ req' = [req EXCEPT ![r] = Respond(req[r], "ok", req[r].task)]
  /\ UNCHANGED <<clock, notified, phase, db0, bg>>

TxPcs == {"claim_save", "save", "cascade_find",
          "cascade_update", "count_total", "count_done", "parent_read",
          "parent_update", "commit"}

\* A statement or the commit of transaction r fails (store unreachable,
\* deadline exceeded): nothing of the transaction is committed.
TxError(r) ==
  /\ req[r].pc \in TxPcs
  /\ Abort(r, req[r], "infra")

\* db.Begin() or the first statement of a request fails.
BeginError(r) ==
  /\ Free(r)
  /\ Abort(r, Idle, "infra")

\* ----------------------------------------------------- GetTaskHandler
Claimable_AnyAssignee(store, actor) ==
  {k \in Rows(store) : store[k].Status = StatusSubmitted}

\* The rows matching "assignee = ? AND status = ?" for the statement.
Claimable(store, actor) ==
  {k \in Rows(store) : store[k].Assignee = actor /\ store[k].Status = StatusSubmitted}

\* First(&task): ORDER BY tasks.id LIMIT 1.
First(store, S) == store[Min(S)]

\* tx.Set("gorm:query_option", "FOR UPDATE").Where(...).First(&task).
\* gorm.io/gorm builds a locking clause from clause.Locking only and never
\* reads the "gorm:query_option" setting, so the statement sent is a plain
\* SELECT: it takes no row lock and does not wait for one.
ClaimSelect(r, actor) ==
  /\ Free(r)
  /\ LET S == Claimable(View(r), actor)
     IN IF S = {}
        THEN Abort(r, Start("claim", actor, NULL), "notfound")
        ELSE /\ req' = [req EXCEPT ![r] =
                  [Start("claim", actor, NULL) EXCEPT
                     !.task = First(View(r), S), !.pc = "claim_save"]]
             /\ UNCHANGED <<db, pend, clock, notified, phase, db0, bg>>

\* task.Status = models.StatusWorking; tx.Save(&task)
ClaimSave(r) ==
  /\ req[r].pc = "claim_save"
  /\ LET task == [req[r].task EXCEPT !.Status = StatusWorking]
     IN /\ Writable(r, task.ID)
        /\ IF SaveFails(r, task)
           THEN Abort(r, req[r], "infra")
           ELSE /\ pend' = Write(r, task)
                /\ req' = [req EXCEPT ![r].task = task, ![r].pc = "commit"]
  /\ UNCHANGED <<db, clock, notified, phase, db0, bg>>

\* ------------------------------------- Complete/Fail/CancelTaskHandler
\* The request goes on with the row it has read.
Found(r, op, actor, task) ==
  /\ req' = [req EXCEPT ![r] =
       [Start(op, actor, task.ID) EXCEPT !.task = task, !.pc = "save"]]
  /\ UNCHANGED <<db, pend, clock, notified, phase, db0, bg>>

CompleteRead_AnyStatus(r, actor, id) ==
  /\ Free(r)
  /\ LET task == View(r)[id]
     IN IF task = NoTask THEN Abort(r, Start("complete", actor, id), "notfound")
        ELSE IF task.Assignee # actor THEN Abort(r, Start("complete", actor, id), "forbidden")
        ELSE Found(r, "complete", actor, task)

\* tx.First(&task, "id = ?", taskID) and the checks of assignee and status.
CompleteRead(r, actor, id) ==
  /\ Free(r)
  /\ LET task == View(r)[id]
     IN IF task = NoTask THEN Abort(r, Start("complete", actor, id), "notfound")
        ELSE IF task.Assignee # actor THEN Abort(r, Start("complete", actor, id), "forbidden")
        ELSE IF task.Status # StatusWorking THEN Abort(r, Start("complete", actor, id), "validation")
        ELSE Found(r, "complete", actor, task)

FailRead_StatusFirst(r, actor, id) ==
  /\ Free(r)
  /\ LET task == View(r)[id]
     IN IF task = NoTask THEN Abort(r, Start("fail", actor, id), "notfound")
        ELSE IF task.Status # StatusWorking THEN Abort(r, Start("fail", actor, id), "validation")
        ELSE IF task.Assignee # actor THEN Abort(r, Start("fail", actor, id), "forbidden")
        ELSE Found(r, "fail", actor, task)

FailRead(r, actor, id) ==
  /\ Free(r)
  /\ LET task == View(r)[id]
     IN IF task = NoTask THEN Abort(r, Start("fail", actor, id), "notfound")
        ELSE IF task.Assignee # actor THEN Abort(r, Start("fail", actor, id), "forbidden")
        ELSE IF task.Status # StatusWorking THEN Abort(r, Start("fail", actor, id), "validation")
        ELSE Found(r, "fail", actor, task)

CancelRead_AnyActor(r, actor, id) ==
  /\ Free(r)
  /\ LET task == View(r)[id]
     IN IF task = NoTask THEN Abort(r, Start("cancel", actor, id), "notfound")
        ELSE IF task.Status \in {StatusCompleted, StatusCanceled, StatusFailed}
             THEN Abort(r, Start("cancel", actor, id), "validation")
        ELSE Found(r, "cancel", actor, task)

CancelRead_AnyStatus(r, actor, id) ==
  /\ Free(r)
  /\ LET task == View(r)[id]
     IN IF task = NoTask THEN Abort(r, Start("cancel", actor, id), "notfound")
        ELSE IF task.Assignee # actor /\ task.CreatedBy # actor
             THEN Abort(r, Start("cancel", actor, id), "forbidden")
        ELSE Found(r, "cancel", actor, task)

CancelRead(r, actor, id) ==
  /\ Free(r)
  /\ LET task == View(r)[id]
     IN IF task = NoTask THEN Abort(r, Start("cancel", actor, id), "notfound")
        ELSE IF task.Assignee # actor /\ task.CreatedBy # actor
             THEN Abort(r, Start("cancel", actor, id), "forbidden")
        ELSE IF task.Status \in {StatusCompleted, StatusCanceled, StatusFailed}
             THEN Abort(r, Start("cancel", actor, id), "validation")
        ELSE Found(r, "cancel", actor, task)

\* The handler's update of its own task, tx.Save(&task); next is pc.
SaveTask(r, task, pc) ==
  /\ Writable(r, task.ID)
  /\ IF SaveFails(r, task)
     THEN Abort(r, req[r], "infra")
     ELSE /\ pend' = Write(r, task)
          /\ req' = [req EXCEPT ![r].task = task, ![r].pc = pc,
                                ![r].todo = IF pc = "cascade_find" THEN <<task.ID>>
                                            ELSE <<>>]
  /\ UNCHANGED <<db, clock, notified, phase, db0, bg>>

CompleteSave(r) ==
  /\ req[r].pc = "save" /\ req[r].op = "complete"
  /\ \E deleteAt \in DeleteAtChoices :
       SaveTask(r, WithDeleteAt([req[r].task EXCEPT !.Status = StatusCompleted,
                                                    !.Result = ResultText], deleteAt),
                "cascade_find")

FailSave_Cascade(r) ==
  /\ req[r].pc = "save" /\ req[r].op = "fail"
  /\ SaveTask(r, [req[r].task EXCEPT !.Status = StatusFailed, !.Result = FailureResult],
              "cascade_find")

FailSave(r) ==
  /\ req[r].pc = "save" /\ req[r].op = "fail"
  /\ SaveTask(r, [req[r].task EXCEPT !.Status = StatusFailed, !.Result = FailureResult],
              "commit")

\* CancelTaskHandler calls CancelSubtasksRecursive(tx, task.ID), a function
\* these sources do not hold; by its specification it is the cascade that
\* CompleteTaskHandler runs, cancelSubtasksRecursive.
CancelSubtasksRecursive == "cascade_find"

CancelSave(r) ==
  /\ req[r].pc = "save" /\ req[r].op = "cancel"
  /\ SaveTask(r, [req[r].task EXCEPT !.Status = StatusCanceled], CancelSubtasksRecursive)

\* --------------------------------------------- cancelSubtasksRecursive
\* The orders in which Find can return the rows S (the query has no ORDER BY).
SeqsOf(S) ==
  {q \in [1..Cardinality(S) -> S] : \A i, j \in 1..Cardinality(S) : i # j => q[i] # q[j]}

ActiveSubtasks_All(store, parentID) ==
  {k \in Rows(store) : store[k].ParentTaskID = parentID}

\* Where("parent_task_id = ? AND status IN ?", parentID, active).Find(&subtasks)
ActiveSubtasks(store, parentID) ==
  {k \in Rows(store) : /\ store[k].ParentTaskID = parentID
                       /\ store[k].Status \in ActiveStatuses}

\* What follows the cascade in CompleteTaskHandler and CancelTaskHandler:
\* the sibling counts when task.ParentTaskID != nil, else the commit.
AfterCascade(r) == IF req[r].task.ParentTaskID # NULL THEN "count_total" ELSE "commit"

\* One call cancelSubtasksRecursive(tx, Head(todo)): its Find.  The calls
\* still to be made (the recursion of the callers) wait in Tail(todo).
CascadeFind(r) ==
  /\ req[r].pc = "cascade_find"
  /\ LET subtasks == ActiveSubtasks(View(r), Head(req[r].todo))
         rest == Tail(req[r].todo)
     IN IF subtasks # {}
        THEN req' = [req EXCEPT ![r].subs = subtasks, ![r].pc = "cascade_update"]
        ELSE req' = [req EXCEPT ![r].todo = rest,
                                ![r].pc = IF rest = <<>> THEN AfterCascade(r)
                                          ELSE "cascade_find"]
  /\ UNCHANGED <<db, pend, clock, notified, phase, db0, bg>>

CascadeUpdate_NoRecursion(r) ==
  /\ req[r].pc = "cascade_update"
  /\ \A k \in req[r].subs : Writable(r, k)
  /\ pend' = [k \in Ids |->
                IF k \in req[r].subs /\ Exists(View(r), k)
                THEN [owner |-> r, row |-> [View(r)[k] EXCEPT !.Status = StatusCanceled]]
                ELSE pend[k]]
  /\ req' = [req EXCEPT ![r].todo = Tail(req[r].todo), ![r].subs = {},
                        ![r].pc = IF Tail(req[r].todo) = <<>> THEN AfterCascade(r)
                                  ELSE "cascade_find"]
  /\ UNCHANGED <<db, clock, notified, phase, db0, bg>>

\* Where("id IN ?", subtaskIDs).Update("status", canceled), then the
\* recursive calls for the subtasks found, in the order Find returned them.
CascadeUpdate(r) ==
  /\ req[r].pc = "cascade_update"
  /\ \A k \in req[r].subs : Writable(r, k)
  /\ pend' = [k \in Ids |->
                IF k \in req[r].subs /\ Exists(View(r), k)
                THEN [owner |-> r, row |-> [View(r)[k] EXCEPT !.Status = StatusCanceled]]
                ELSE pend[k]]
  /\ \E order \in SeqsOf(req[r].subs) :
       req' = [req EXCEPT ![r].todo = order \o Tail(req[r].todo),
                          ![r].subs = {}, ![r].pc = "cascade_find"]
  /\ UNCHANGED <<db, clock, notified, phase, db0, bg>>

\* ------------------------------------------------------- parent rollup
Siblings(store, parentID) == {k \in Rows(store) : store[k].ParentTaskID = parentID}

\* Where("parent_task_id = ?", task.ParentTaskID).Count(&totalCount)
CountTotal(r) ==
  /\ req[r].pc = "count_total"
  /\ req' = [req EXCEPT
       ![r].total = Cardinality(Siblings(View(r), req[r].task.ParentTaskID)),
       ![r].pc = "count_done"]
  /\ UNCHANGED <<db, pend, clock, notified, phase, db0, bg>>

RollupFires_AnyDone(totalCount, completedOrCanceledCount) ==
  totalCount > 0 /\ completedOrCanceledCount > 0

\* The rollup condition: totalCount > 0 && totalCount == completedOrCanceledCount
RollupFires(totalCount, completedOrCanceledCount) ==
  totalCount > 0 /\ totalCount = completedOrCanceledCount

\* Where("parent_task_id = ? AND status IN ?", ...).Count(&completedOrCanceledCount)
\* and the test of the two counts.
CountDone(r) ==
  /\ req[r].pc = "count_done"
  /\ LET completedOrCanceledCount ==
           Cardinality({k \in Siblings(View(r), req[r].task.ParentTaskID) :
                          View(r)[k].Status \in DoneStatuses})
     IN req' = [req EXCEPT
          ![r].total = 0,
          ![r].pc = IF RollupFires(req[r].total, completedOrCanceledCount)
                    THEN (IF req[r].op = "cancel" THEN "parent_read" ELSE "parent_update")
                    ELSE "commit"]
  /\ UNCHANGED <<db, pend, clock, notified, phase, db0, bg>>

\* CancelTaskHandler: tx.First(&parentTask, "id = ?", task.ParentTaskID)
CancelParentRead(r) ==
  /\ req[r].pc = "parent_read"
  /\ LET parentTask == View(r)[req[r].task.ParentTaskID]
     IN IF parentTask = NoTask
        THEN Abort(r, req[r], "infra")
        ELSE /\ req' = [req EXCEPT ![r].parentTask = parentTask,
                                   ![r].pc = "parent_update"]
             /\ UNCHANGED <<db, pend, clock, notified, phase, db0, bg>>

\* Where("id = ?", task.ParentTaskID).Update("status", submitted)
ParentSubmitted(r) ==
  LET p == req[r].task.ParentTaskID
  IN /\ Writable(r, p)
     /\ pend' = IF Exists(View(r), p)
                THEN Write(r, [View(r)[p] EXCEPT !.Status = StatusSubmitted])
                ELSE pend
     /\ req' = [req EXCEPT ![r].parentTask = NoTask, ![r].pc = "commit"]

CompleteParentUpdate(r) ==
  /\ req[r].pc = "parent_update" /\ req[r].op = "complete"
  /\ ParentSubmitted(r)
  /\ UNCHANGED <<db, clock, notified, phase, db0, bg>>

\* CancelTaskHandler sends the notification for the parent before the
\* commit; an error of the send is put in c.Errors and otherwise ignored.
CancelParentUpdate(r) ==
  /\ req[r].pc = "parent_update" /\ req[r].op = "cancel"
  /\ \E sent \in NotifyOutcomes :
       /\ notified' = IF sent
                      THEN SendTaskNotification(req[r].parentTask.ID,
                                                req[r].parentTask.Assignee)
                      ELSE notified
       /\ LET p == req[r].task.ParentTaskID
          IN /\ Writable(r, p)
             /\ pend' = IF Exists(View(r), p)
                        THEN Write(r, [View(r)[p] EXCEPT !.Status = StatusSubmitted])
                        ELSE pend
             /\ req' = [req EXCEPT ![r].parentTask = NoTask, ![r].pc = "commit",
                                   ![r].errs = ~sent]
  /\ UNCHANGED <<db, clock, phase, db0, bg>>

\* One step of the request in slot r.
Step(r) ==
  \/ \E a \in Creators, b \in Actors : CreateRoot(r, a, b)
  \/ \E a \in Creators, b \in Actors, p \in Ids : CreateReadParent(r, a, b, p)
  \/ CreateChild(r)
  \/ CreateSaveRoot(r)
  \/ CreateParentWaiting(r)
  \/ \E a \in Actors : ClaimSelect(r, a)
  \/ ClaimSave(r)
  \/ \E a \in Actors, k \in Ids : CompleteRead(r, a, k)
  \/ CompleteSave(r)
  \/ \E a \in Actors, k \in Ids : FailRead(r, a, k)
  \/ FailSave(r)
  \/ \E a \in Actors, k \in Ids : CancelRead(r, a, k)
  \/ CancelSave(r)
  \/ CascadeFind(r)
  \/ CascadeUpdate(r)
  \/ CountTotal(r)
  \/ CountDone(r)
  \/ CompleteParentUpdate(r)
  \/ CancelParentRead(r)
  \/ CancelParentUpdate(r)
  \/ TxCommit(r)
  \/ TxError(r)
  \/ BeginError(r)
  \/ Return(r)

\* ------------------------------------------------ TaskCleanupScheduler
\* Time passes.
Tick ==
  /\ now < MaxNow
  /\ now' = now + 1
  /\ UNCHANGED <<db, pend, req, clock, notified, phase, db0, sweep, gone, index, sync, aux>>

Expired_Created(store, t) == {k \in Rows(store) : store[k].CreatedAt < t}

\* Where("delete_at IS NOT NULL AND delete_at < ?", now)
Expired(store, t) ==
  {k \in Rows(store) : store[k].DeleteAt # NULL /\ store[k].DeleteAt < t}

DeleteCascade_None(store, S) == S

\* The rows a DELETE of the rows S removes: S and, by ON DELETE CASCADE of
\* parent_task_id and root_task_id, every row that names a removed row.
RECURSIVE DeleteCascade(_, _)
DeleteCascade(store, S) ==
  LET N == S \cup {k \in Rows(store) : \/ store[k].ParentTaskID \in S
                                       \/ store[k].RootTaskID \in S}
  IN IF N = S THEN S ELSE DeleteCascade(store, N)

\* The runs that follow the loops of the two goroutines: there a cleanup or
\* a synchronisation starts only from the loop, when one is due.
Looping == phase = "stop"

\* Start is about to call cleanupExpiredTasks: its first call, or the case
\* <-ticker.C of the select.
SweeperDue == \/ sched.loop \in {"start", "woken"}
              \/ sched.loop = "running" /\ sched.due

SweeperTaken ==
  [sched EXCEPT !.due = IF sched.loop = "running" THEN FALSE ELSE @,
                !.loop = "running"]

\* The goroutine of StartPeriodicSync is about to call SyncUsersWithTasks.
SyncerDue == \/ sched.syncLoop = "woken"
             \/ sched.syncLoop = "running" /\ sched.syncDue

SyncerTaken ==
  [sched EXCEPT !.syncDue = IF sched.syncLoop = "running" THEN FALSE ELSE @,
                !.syncLoop = "running"]

\* cleanupExpiredTasks up to the count: now := time.Now(), the Count of the
\* expired rows, and the return when there is none (or when Count fails).
SweepCount ==
  /\ Running
  /\ sweep.pc = "idle"
  /\ Looping => SweeperDue
  /\ sweep' = IF ~DbOpen \/ Expired(db, now) = {} THEN NoSweep
                ELSE [pc |-> "delete", now |-> now]
  /\ sched' = IF Looping THEN SweeperTaken ELSE sched
  /\ UNCHANGED <<db, pend, req, clock, notified, phase, db0, now, gone, index, sync,
                 main, requests, admitted>>

SweepDelete_Nothing ==
  /\ Running
  /\ sweep.pc = "delete"
  /\ sweep' = NoSweep
  /\ UNCHANGED <<db, pend, req, clock, notified, phase, db0, now, gone, index, sync, aux>>

\* The transaction of cleanupExpiredTasks: the Delete of the rows expired at
\* the now computed before, with the cascade of the foreign keys, and the
\* commit.  The DELETE waits for the rows a transaction has locked.
SweepDelete ==
  /\ Running
  /\ sweep.pc = "delete"
  /\ DbOpen
  /\ LET deleted == DeleteCascade(db, Expired(db, sweep.now))
     IN /\ \A k \in Ids :
             pend[k].owner # 0 =>
               /\ k \notin deleted
               /\ pend[k].row.ParentTaskID \notin deleted
               /\ pend[k].row.RootTaskID \notin deleted
        /\ db' = [k \in Ids |-> IF k \in deleted THEN NoTask ELSE db[k]]
        /\ gone' = [k \in Ids |-> IF k \in deleted THEN db[k] ELSE gone[k]]
  /\ sweep' = NoSweep
  /\ UNCHANGED <<pend, req, clock, notified, phase, db0, now, index, sync, aux>>

SweepError_Partial ==
  /\ Running
  /\ sweep.pc = "delete"
  /\ db' = [k \in Ids |-> IF k \in Expired(db, sweep.now) THEN NoTask ELSE db[k]]
  /\ sweep' = NoSweep
  /\ UNCHANGED <<pend, req, clock, notified, phase, db0, now, gone, index, sync, aux>>

\* The Delete or the commit fails: the transaction is rolled back and the
\* error logged.
SweepError ==
  /\ Running
  /\ sweep.pc = "delete"
  /\ sweep' = NoSweep
  /\ UNCHANGED <<db, pend, req, clock, notified, phase, db0, now, gone, index, sync, aux>>

\* ---------------------------------------------------------- UsersCache
\* AddUserWithTask(userID)
AddUserWithTask(userID) ==
  /\ index' = index \cup {userID}
  /\ UNCHANGED <<db, pend, req, clock, notified, phase, db0, now, sweep, gone, sync, aux>>

\* RemoveUserWithTask(userID)
RemoveUserWithTask(userID) ==
  /\ index' = index \ {userID}
  /\ UNCHANGED <<db, pend, req, clock, notified, phase, db0, now, sweep, gone, sync, aux>>

\* Select("DISTINCT assignee").Where("status IN ?", active).Pluck("assignee", &users)
ActiveUsers(store) ==
  {store[k].Assignee : k \in {j \in Rows(store) : store[j].Status \in ActiveStatuses}}

\* SyncUsersWithTasks up to the query (in the runs that keep them apart,
\* while no request is being served).
SyncQuery ==
  /\ Running
  /\ sync.pc = "idle"
  /\ DbOpen
  /\ Apart => \A r \in Reqs : ~InFlight(r)
  /\ Looping => SyncerDue
  /\ sync' = [pc |-> "swap", users |-> ActiveUsers(db)]
  /\ sched' = IF Looping THEN SyncerTaken ELSE sched
  /\ UNCHANGED <<db, pend, req, clock, notified, phase, db0, now, sweep, gone, index,
                 main, requests, admitted>>

\* The query of SyncUsersWithTasks fails: it returns the error and the
\* cache is as before.
SyncError ==
  /\ Running
  /\ sync.pc = "idle"
  /\ Looping => SyncerDue
  /\ sched' = IF Looping THEN SyncerTaken ELSE sched
  /\ UNCHANGED <<db, pend, req, clock, notified, phase, db0, now, sweep, gone, index,
                 sync, main, requests, admitted>>

SyncSwap_Merge ==
  /\ Running
  /\ sync.pc = "swap"
  /\ index' = index \cup sync.users
  /\ sync' = NoSync
  /\ UNCHANGED <<db, pend, req, clock, notified, phase, db0, now, sweep, gone, aux>>

\* usersCache.users = newUsers, under the lock.
SyncSwap ==
  /\ Running
  /\ sync.pc = "swap"
  /\ index' = sync.users
  /\ sync' = NoSync
  /\ UNCHANGED <<db, pend, req, clock, notified, phase, db0, now, sweep, gone, aux>>

\* ------------------------------------------------------------ func main
\* <-quit: SIGINT or SIGTERM arrives.
Quit ==
  /\ main = "serving"
  /\ main' = "shutdown"
  /\ UNCHANGED <<db, pend, req, clock, notified, phase, db0, now, sweep, gone, index,
                 sync, requests, admitted, sched>>

\* srv.Shutdown(ctx) returns nil: the requests being served have finished.
SrvShutdown ==
  /\ main = "shutdown"
  /\ \A r \in Reqs : ~InFlight(r)
  /\ main' = "closedb"
  /\ UNCHANGED <<db, pend, req, clock, notified, phase, db0, now, sweep, gone, index,
                 sync, requests, admitted, sched>>

\* srv.Shutdown(ctx) returns the deadline error after 30 seconds with a
\* request still being served: log.Fatal ends the process, and the store
\* rolls back the transactions of the connections it loses.
ShutdownTimeout ==
  /\ main = "shutdown"
  /\ \E r \in Reqs : InFlight(r)
  /\ main' = "exited"
  /\ pend' = [k \in Ids |-> NoPend]
  /\ req' = [r \in Reqs |-> Idle]
  /\ UNCHANGED <<db, clock, notified, phase, db0, now, sweep, gone, index,
                 sync, requests, admitted, sched>>

\* database.CloseDB()
CloseDB ==
  /\ main = "closedb"
  /\ main' = "closeredis"
  /\ UNCHANGED <<db, pend, req, clock, notified, phase, db0, now, sweep, gone, index,
                 sync, requests, admitted, sched>>

\* redis.CloseRedis()
CloseRedis ==
  /\ main = "closeredis"
  /\ main' = "return"
  /\ UNCHANGED <<db, pend, req, clock, notified, phase, db0, now, sweep, gone, index,
                 sync, requests, admitted, sched>>

\* main returns: the deferred taskCleanupScheduler.Stop() closes stopChan
\* and the process ends with the goroutines it still has.
Exit ==
  /\ main = "return"
  /\ main' = "exited"
  /\ UNCHANGED <<db, pend, req, clock, notified, phase, db0, now, sweep, gone, index,
                 sync, requests, admitted, sched>>

\* ----------------------------------------------- the loops and their stop
\* The select of Start has no case ready: the goroutine is parked.
SweeperBlocked ==
  sched.loop = "running" /\ sweep.pc = "idle" /\ ~sched.due /\ sched.stopChan = "open"

\* ticker.C of Start gets a tick (it holds one at most): a parked goroutine
\* is woken with the case <-ticker.C, otherwise the tick waits in the channel.
SweeperTick ==
  /\ Running
  /\ Looping
  /\ sched.loop = "running"
  /\ ~sched.due
  /\ sched' = IF SweeperBlocked THEN [sched EXCEPT !.loop = "woken"]
                ELSE [sched EXCEPT !.due = TRUE]
  /\ UNCHANGED <<db, pend, req, clock, notified, phase, db0, now, sweep, gone, index,
                 sync, requests, admitted, main>>

SweeperExit_Stays ==
  /\ Running
  /\ Looping
  /\ sched.loop = "running"
  /\ sweep.pc = "idle"
  /\ sched.stopChan = "closed"
  /\ UNCHANGED vars

\* The select of Start takes the case <-s.stopChan (one of the ready cases,
\* chosen at random): Start returns.
SweeperExit ==
  /\ Running
  /\ Looping
  /\ sched.loop = "running"
  /\ sweep.pc = "idle"
  /\ sched.stopChan = "closed"
  /\ sched' = [sched EXCEPT !.loop = "exited"]
  /\ UNCHANGED <<db, pend, req, clock, notified, phase, db0, now, sweep, gone, index,
                 sync, requests, admitted, main>>

\* TaskCleanupScheduler.Stop(): close(s.stopChan).  The close of a closed
\* channel panics; the close of the open one wakes a parked goroutine with
\* the case <-s.stopChan, and it returns.
Stop ==
  /\ Running
  /\ Looping
  /\ IF sched.stopChan = "closed"
     THEN /\ main' = "panicked"
          /\ UNCHANGED sched
     ELSE /\ sched' = [sched EXCEPT !.stopChan = "closed",
                                    !.loop = IF SweeperBlocked THEN "exited" ELSE @]
          /\ UNCHANGED main
  /\ UNCHANGED <<db, pend, req, clock, notified, phase, db0, now, sweep, gone, index,
                 sync, requests, admitted>>

\* StartPeriodicSync(interval) with the cache initialised: the ticker is
\* made and the goroutine started (called once).
StartPeriodicSync ==
  /\ Running
  /\ Looping
  /\ sched.syncLoop = "none"
  /\ sched' = [sched EXCEPT !.syncTicker = "on", !.syncLoop = "running"]
  /\ UNCHANGED <<db, pend, req, clock, notified, phase, db0, now, sweep, gone, index,
                 sync, requests, admitted, main>>

\* The select of the goroutine of StartPeriodicSync has no case ready.
SyncerBlocked ==
  /\ sched.syncLoop = "running"
  /\ sync.pc = "idle"
  /\ ~sched.syncDue
  /\ sched.stopSync = "open"

\* usersCache.syncTicker.C gets a tick.
SyncTick ==
  /\ Running
  /\ Looping
  /\ sched.syncTicker = "on"
  /\ sched.syncLoop = "running"
  /\ ~sched.syncDue
  /\ sched' = IF SyncerBlocked THEN [sched EXCEPT !.syncLoop = "woken"]
                ELSE [sched EXCEPT !.syncDue = TRUE]
  /\ UNCHANGED <<db, pend, req, clock, notified, phase, db0, now, sweep, gone, index,
                 sync, requests, admitted, main>>

\* The select of the goroutine takes the case <-usersCache.stopSync: it
\* returns.
SyncerExit ==
  /\ Running
  /\ Looping
  /\ sched.syncLoop = "running"
  /\ sync.pc = "idle"
  /\ sched.stopSync = "closed"
  /\ sched' = [sched EXCEPT !.syncLoop = "exited"]
  /\ UNCHANGED <<db, pend, req, clock, notified, phase, db0, now, sweep, gone, index,
                 sync, requests, admitted, main>>

\* StopPeriodicSync(): nothing without a syncTicker; otherwise
\* syncTicker.Stop() and close(usersCache.stopSync), which panics when the
\* channel is closed already.
StopPeriodicSync ==
  /\ Running
  /\ Looping
  /\ IF sched.syncTicker = "nil"
     THEN UNCHANGED <<main, sched>>
     ELSE IF sched.stopSync = "closed"
     THEN /\ main' = "panicked"
          /\ UNCHANGED sched
     ELSE /\ sched' = [sched EXCEPT !.syncTicker = "stopped",
                                    !.stopSync = "closed",
                                    !.syncLoop = IF SyncerBlocked THEN "exited" ELSE @]
          /\ UNCHANGED main
  /\ UNCHANGED <<db, pend, req, clock, notified, phase, db0, now, sweep, gone, index,
                 sync, requests, admitted>>

\* ---------------------------------------------------------- RateLimiter
\* RateLimitMiddleware(limit, window), called with (5, time.Minute): the
\* limiter is checked for a smaller limit and for a window as long as the
\* time that passes here.
limit == 2
window == MaxNow

\* The requests of a list that fall in the window: reqTime.After(windowStart)
validRequests(reqs, windowStart) == SelectSeq(reqs, LAMBDA reqTime : reqTime > windowStart)

Allow_Over(key) ==
  LET windowStart == now - window
      valid == validRequests(requests[key], windowStart)
  IN IF Len(valid) > limit
     THEN /\ requests' = [requests EXCEPT ![key] = valid]
          /\ UNCHANGED admitted
     ELSE /\ requests' = [requests EXCEPT ![key] = Append(valid, now)]
          /\ admitted' = [admitted EXCEPT ![key][now] = @ + 1]

\* limiter.Allow(clientIP) under rl.mu, and the middleware's c.Next() when
\* it returns true (429 and c.Abort() when false).
Allow(key) ==
  LET windowStart == now - window
      valid == validRequests(requests[key], windowStart)
  IN IF Len(valid) >= limit
     THEN /\ requests' = [requests EXCEPT ![key] = valid]
          /\ UNCHANGED admitted
     ELSE /\ requests' = [requests EXCEPT ![key] = Append(valid, now)]
          /\ admitted' = [admitted EXCEPT ![key][now] = @ + 1]

\* A POST /generate-jwt from client IP key.
GenerateJWT(key) ==
  /\ Allow(key)
  /\ UNCHANGED <<db, pend, req, clock, notified, phase, db0, now, sweep, gone, index,
                 sync, main, sched>>

\* cleanOldRequests under rl.mu; a key without valid request is deleted
\* from the map (Allow reads a missing key as the empty list).
cleanOldRequests ==
  /\ requests' = [key \in Keys |-> validRequests(requests[key], now - window)]
  /\ UNCHANGED <<db, pend, req, clock, notified, phase, db0, now, sweep, gone, index,
                 sync, main, admitted, sched>>

Next == (\E r \in Reqs : Step(r)) \/ Burst

Spec == Init /\ [][Next]_vars

NextSerial == \E r \in Reqs : Step(r)

SpecSerial == InitSerial /\ [][NextSerial]_vars

\* Requests served one at a time while time passes and the sweeper runs.
InitSweep == Empty /\ phase = "sweep"

NextSweep ==
  \/ \E r \in Reqs : Step(r)
  \/ Tick
  \/ SweepCount
  \/ SweepDelete
  \/ SweepError

SpecSweep == InitSweep /\ [][NextSweep]_vars

\* Requests served one at a time, calls of the cache between their steps,
\* and the synchronisation of the cache between requests.
InitIndex == Empty /\ phase = "index"

NextIndex ==
  \/ \E r \in Reqs : Step(r)
  \/ \E userID \in Actors : AddUserWithTask(userID)
  \/ \E userID \in Actors : RemoveUserWithTask(userID)
  \/ SyncQuery
  \/ SyncSwap
  \/ SyncError

SpecIndex == InitIndex /\ [][NextIndex]_vars

\* Requests served one at a time and calls of the cache, at any point of a
\* synchronisation of the cache.
InitResync == Empty /\ phase = "resync"

SpecResync == InitResync /\ [][NextIndex]_vars

\* Requests served one at a time whose statements and notifications can fail.
InitFault == Empty /\ phase = "fault"

NextFault ==
  \/ \E r \in Reqs : Step(r)
  \/ \E r \in Reqs : CreateError(r)

SpecFault == InitFault /\ [][NextFault]_vars

\* The requests of clients that create no subtasks.
RootStep(r) ==
  \/ \E a \in Creators, b \in Actors : CreateRoot(r, a, b)
  \/ CreateSaveRoot(r)
  \/ \E a \in Actors : ClaimSelect(r, a)
  \/ ClaimSave(r)
  \/ \E a \in Actors, k \in Ids : CompleteRead(r, a, k)
  \/ CompleteSave(r)
  \/ \E a \in Actors, k \in Ids : FailRead(r, a, k)
  \/ FailSave(r)
  \/ \E a \in Actors, k \in Ids : CancelRead(r, a, k)
  \/ CancelSave(r)
  \/ CascadeFind(r)
  \/ TxCommit(r)
  \/ TxError(r)
  \/ BeginError(r)
  \/ Return(r)

\* The process from its start to its exit: requests for tasks without
\* subtasks, the sweeper, the synchronisation of the cache, and the shutdown
\* of func main.
InitBackground == Empty /\ phase = "background"

NextBackground ==
  \/ \E r \in Reqs : RootStep(r)
  \/ Tick
  \/ SweepCount
  \/ SweepDelete
  \/ SweepError
  \/ SyncQuery
  \/ SyncSwap
  \/ SyncError
  \/ Quit
  \/ SrvShutdown
  \/ ShutdownTimeout
  \/ CloseDB
  \/ CloseRedis
  \/ Exit

SpecBackground == InitBackground /\ [][NextBackground]_vars

\* The rate limiter of /generate-jwt: requests of the clients, the cleanup
\* goroutine, and time.
InitLimiter == Empty /\ phase = "limiter"

NextLimiter ==
  \/ \E key \in Keys : GenerateJWT(key)
  \/ cleanOldRequests
  \/ Tick

SpecLimiter == InitLimiter /\ [][NextLimiter]_vars

\* The two background loops and the calls that stop them, with requests
\* that create tasks to sweep (requests and synchronisations kept apart).
StopStep(r) ==
  \/ \E a \in Creators, b \in Actors : CreateRoot(r, a, b)
  \/ CreateSaveRoot(r)
  \/ Return(r)

InitStop == Empty /\ phase = "stop"

NextStop ==
  \/ \E r \in Reqs : StopStep(r)
  \/ SweepCount
  \/ SweepDelete
  \/ SweepError
  \/ SweeperTick
  \/ SweeperExit
  \/ Stop
  \/ StartPeriodicSync
  \/ SyncTick
  \/ SyncQuery
  \/ SyncSwap
  \/ SyncError
  \/ SyncerExit
  \/ StopPeriodicSync

SpecStop == InitStop /\ [][NextStop]_vars

\* The same with the scheduling of the Go runtime and of the store: a
\* goroutine that can run does; a statement sent to the store returns (with
\* a result or an error); a select that keeps finding the stop channel ready
\* takes that case at last, since it chooses among the ready cases at random.
SpecStopLive ==
  /\ SpecStop
  /\ WF_vars(SweepCount)
  /\ WF_vars(SweepDelete \/ SweepError)
  /\ WF_vars(SyncQuery \/ SyncError)
  /\ WF_vars(SyncSwap)
  /\ SF_vars(SweeperExit)
  /\ SF_vars(SyncerExit)

\* ================================================================ claims
\* The tasks a claim of actor can hand out: status submitted, assignee = actor.
Eligible(store, actor) ==
  {k \in Ids : /\ store[k] # NoTask
               /\ store[k].Status = "submitted"
               /\ store[k].Assignee = actor}

Answered(r, op, res) == req[r].pc = "done" /\ req[r].op = op /\ req[r].res = res

\* C1: no two overlapping claim requests hold the same task: of the claims
\* being served at the same time at most one has read a given row as
\* submitted and is on its way to move it to working and return it.
C1_NoSharedClaim ==
  \A r1, r2 \in Reqs :
    (/\ r1 # r2
     /\ InFlight(r1) /\ req[r1].op = "claim"
     /\ InFlight(r2) /\ req[r2].op = "claim")
    => req[r1].task.ID # req[r2].task.ID

\* C2: when every request of the burst was a claim of one actor, that actor
\* had exactly one eligible task when the burst began and no claim met a
\* store failure, exactly one claim succeeded and the others got NotFound.
C2_OneWinner ==
  (/\ phase = "burst"
   /\ \A r \in Reqs : req[r].pc = "done" /\ req[r].op = "claim" /\ req[r].res # "infra"
   /\ \E a \in Actors : /\ \A r \in Reqs : req[r].actor = a
                        /\ Cardinality(Eligible(db0, a)) = 1)
  => /\ Cardinality({r \in Reqs : req[r].res = "ok"}) = 1
     /\ \A r \in Reqs : req[r].res \in {"ok", "notfound"}

\* C7: a claim of actor reads a row of the store whose assignee is actor and
\* whose status is submitted, its commit changes that row only and leaves it
\* in working; with no eligible row the claim answers NotFound and the store
\* is as before.
C7_ClaimContract ==
  [][\A r \in Reqs :
       /\ \A a \in Actors :
            ClaimSelect(r, a) =>
              IF Eligible(db, a) = {}
              THEN req'[r].res = "notfound" /\ db' = db /\ pend' = pend
              ELSE /\ req'[r].task.ID \in Eligible(db, a)
                   /\ req'[r].task = db[req'[r].task.ID]
                   /\ db' = db
       /\ (req[r].op = "claim" /\ TxCommit(r)) =>
            /\ req'[r].res = "ok"
            /\ req[r].task.Assignee = req[r].actor
            /\ db'[req[r].task.ID].Status = "working"
            /\ db'[req[r].task.ID].Assignee = req[r].actor
            /\ \A k \in Ids \ {req[r].task.ID} : db'[k] = db[k]]_vars

\* A claim has answered with a task that is now in working, while another
\* actor's submitted task was left alone.
C7_Witness ==
  \E r \in Reqs :
    /\ Answered(r, "claim", "ok")
    /\ db[req[r].task.ID].Status = "working"
    /\ \E k \in Ids : /\ db[k] # NoTask
                      /\ db[k].Status = "submitted"
                      /\ db[k].Assignee # req[r].actor

\* C8: a claim selects the eligible task with the earliest created_at.
C8_ClaimsOldest ==
  [][\A r \in Reqs, a \in Actors :
       (ClaimSelect(r, a) /\ Eligible(db, a) # {}) =>
         \A k \in Eligible(db, a) : req'[r].task.CreatedAt <= db[k].CreatedAt]_vars

\* The children of the tasks S, and all that descend from a task.
ChildrenOf(store, S) == {k \in Ids : store[k] # NoTask /\ store[k].ParentTaskID \in S}

RECURSIVE Closure(_, _)
Closure(store, S) ==
  LET N == S \cup ChildrenOf(store, S)
  IN IF N = S THEN S ELSE Closure(store, N)

Descendants(store, t) == Closure(store, {t}) \ {t}

Active == {"submitted", "working", "waiting"}

Closes(r) == req[r].op \in {"complete", "cancel"} /\ TxCommit(r)

Edges ==
  {<<"submitted", "working">>, <<"working", "completed">>, <<"working", "failed">>,
   <<"waiting", "submitted">>}
  \cup (Active \X {"canceled"}) \cup (Active \X {"waiting"})

\* C5: every change of the status of a task follows a defined edge; a task
\* in completed, failed or canceled keeps its status.
C5_EdgesOnly ==
  [][\A k \in Ids :
       (db[k] # NoTask /\ db'[k] # NoTask /\ db'[k].Status # db[k].Status)
       => <<db[k].Status, db'[k].Status>> \in Edges]_vars

\* C6: a Complete or Cancel that ends with an error leaves every row as it
\* was and keeps nothing it wrote; the rows it has written stay as they were
\* for everyone else until it commits, and its commit puts all of them in
\* place at once.
C6_AllOrNothing ==
  [][\A r \in Reqs :
       (req[r].op \in {"complete", "cancel"} /\ InFlight(r)) =>
         LET mine == {k \in Ids : pend[k].owner = r}
         IN /\ (req'[r].pc = "done" /\ req'[r].res # "ok") =>
                 (db' = db /\ \A k \in Ids : pend'[k].owner # r)
            /\ (req'[r].pc = "done" /\ req'[r].res = "ok") =>
                 (\A k \in mine : db'[k] = pend[k].row)
            /\ (req'[r].pc # "done") => (\A k \in mine : db'[k] = db[k])]_vars

\* A Complete or Cancel has failed at the update of the parent, after its
\* own update and the cascade: the task is still working, the parent waiting.
C6_Witness ==
  \E r \in Reqs :
    /\ req[r].pc = "done" /\ req[r].op \in {"complete", "cancel"}
    /\ req[r].res = "infra" /\ req[r].at = "parent_update"
    /\ db[req[r].arg] # NoTask /\ db[req[r].arg].Status = "working"
    /\ db[db[req[r].arg].ParentTaskID].Status = "waiting"

\* C9: the row a Create inserts is in submitted, and when the Create of a
\* child has answered, its parent is in waiting.
C9_CreateStatuses ==
  [][\A r \in Reqs :
       /\ \A a \in Creators, b \in Actors :
            ((CreateRoot(r, a, b) \/ CreateChild(r)) /\ req'[r].pc # "done") =>
              /\ db[req'[r].task.ID] = NoTask
              /\ db'[req'[r].task.ID].Status = "submitted"
       /\ (CreateSaveRoot(r) \/ CreateParentWaiting(r)) =>
            /\ req'[r].res = "ok"
            /\ db'[req[r].task.ID].Status = "submitted"
            /\ req[r].arg # NULL => db'[req[r].arg].Status = "waiting"]_vars

\* The newest row is a submitted child whose parent has gone to waiting.
C9_Witness ==
  \E r \in Reqs : \E k \in Ids :
    /\ req[r].pc = "done" /\ req[r].res = "ok"
    /\ db[k] # NoTask /\ db[k].CreatedAt = clock /\ db[k].Status = "submitted"
    /\ db[k].ParentTaskID # NULL
    /\ db[db[k].ParentTaskID].Status = "waiting"

\* C10: a Create naming a parent that does not exist, or one in completed,
\* failed or canceled, answers with a validation error; no row is created
\* and no row, the parent included, changes.
C10_BadParent ==
  [][\A r \in Reqs, a \in Creators, b \in Actors, p \in Ids :
       (/\ CreateReadParent(r, a, b, p)
        /\ (db[p] = NoTask \/ db[p].Status \in {"completed", "failed", "canceled"}))
       => /\ req'[r].pc = "done" /\ req'[r].res = "validation"
          /\ db' = db /\ pend' = pend /\ clock' = clock /\ notified' = notified]_vars

\* A Create naming a parent in a terminal status was answered with a
\* validation error, and the parent has no child.
C10_Witness ==
  \E r \in Reqs :
    /\ Answered(r, "create", "validation")
    /\ req[r].arg # NULL /\ db[req[r].arg] # NoTask
    /\ db[req[r].arg].Status \in {"completed", "failed", "canceled"}
    /\ ChildrenOf(db, {req[r].arg}) = {}

\* The rows whose create request is still between its insert and its answer.
BeingCreated ==
  {req[r].task.ID : r \in {q \in Reqs : req[q].pc \in {"create_root", "create_wait"}}}

\* The top-level ancestor of task k, following parent_task_id.
RECURSIVE TopAncestor(_, _)
TopAncestor(store, k) ==
  IF store[k].ParentTaskID = NULL \/ store[store[k].ParentTaskID] = NoTask
  THEN k
  ELSE TopAncestor(store, store[k].ParentTaskID)

\* C11: every task whose creation has completed has a root_task_id; its
\* parent_task_id is null exactly when its root_task_id is its own id; a
\* task with a parent has the root_task_id of that parent, which is the id
\* of its top-level ancestor.
C11_RootIds ==
  \A k \in Ids :
    (db[k] # NoTask /\ k \notin BeingCreated) =>
      /\ db[k].RootTaskID # NULL
      /\ (db[k].ParentTaskID = NULL) <=> (db[k].RootTaskID = k)
      /\ db[k].ParentTaskID # NULL =>
           /\ db[k].RootTaskID = TopAncestor(db, k)
           /\ (db[db[k].ParentTaskID] # NoTask /\ db[k].ParentTaskID \notin BeingCreated) =>
                db[k].RootTaskID = db[db[k].ParentTaskID].RootTaskID

\* The request in slot r was answered with one of the errors E and neither
\* the table nor the uncommitted writes changed.
Refused(r, E) ==
  /\ req'[r].pc = "done" /\ req'[r].res \in E
  /\ db' = db /\ pend' = pend

Mine(r) == {k \in Ids : pend[k].owner = r}

\* C12: a Complete goes on to its update exactly when the task exists, the
\* actor is its assignee and its status is working, and its commit leaves
\* the task completed with the supplied result; otherwise it answers
\* NotFound, Forbidden or Validation and no row changes.
C12_CompleteContract ==
  [][\A r \in Reqs :
       /\ \A a \in Actors, k \in Ids :
            CompleteRead(r, a, k) =>
              IF db[k] # NoTask /\ db[k].Assignee = a /\ db[k].Status = "working"
              THEN req'[r].pc = "save" /\ req'[r].task = db[k] /\ db' = db
              ELSE Refused(r, {"notfound", "forbidden", "validation"})
       /\ (req[r].op = "complete" /\ TxCommit(r)) =>
            /\ req'[r].res = "ok"
            /\ req[r].task.Assignee = req[r].actor
            /\ db'[req[r].task.ID].Status = "completed"
            /\ db'[req[r].task.ID].Result = "done"]_vars

\* A Complete by the assignee was answered with the task, which is
\* completed and holds the result.
C12_Witness ==
  \E r \in Reqs :
    /\ Answered(r, "complete", "ok")
    /\ db[req[r].arg] # NoTask
    /\ db[req[r].arg].Assignee = req[r].actor
    /\ db[req[r].arg].Status = "completed" /\ db[req[r].arg].Result = "done"

\* C13: a Fail writes its own task only, and its commit leaves that task
\* failed with the result "FAILURE REASON: " + reason and every other row,
\* parent, siblings and descendants, as it was.
C13_FailFrame ==
  [][\A r \in Reqs :
       (req[r].op = "fail" /\ TxCommit(r)) =>
         LET T == req[r].task.ID
         IN /\ req'[r].res = "ok"
            /\ Mine(r) = {T}
            /\ db'[T].Status = "failed"
            /\ db'[T].Result = "FAILURE REASON: why"
            /\ \A k \in Ids \ {T} : db'[k] = db[k]]_vars

\* A Fail of a child of a waiting parent was answered: the child is
\* failed, the parent still waiting.
C13_Witness ==
  \E r \in Reqs :
    /\ Answered(r, "fail", "ok")
    /\ db[req[r].arg] # NoTask /\ db[req[r].arg].Status = "failed"
    /\ db[req[r].arg].ParentTaskID # NULL
    /\ db[db[req[r].arg].ParentTaskID].Status = "waiting"

Authorized(a, k) == a = db[k].Assignee \/ a = db[k].CreatedBy

\* C14: a Cancel of an existing task goes on to its update exactly when the
\* actor is the assignee or the creator and the status is submitted, working
\* or waiting, and its commit leaves the task canceled; any other actor gets
\* Forbidden and nothing changes.
C14_CancelContract ==
  [][\A r \in Reqs :
       /\ \A a \in Actors, k \in Ids :
            (CancelRead(r, a, k) /\ db[k] # NoTask) =>
              /\ (req'[r].pc = "save") <=> (Authorized(a, k) /\ db[k].Status \in Active)
              /\ ~Authorized(a, k) => Refused(r, {"forbidden"})
       /\ (req[r].op = "cancel" /\ TxCommit(r)) =>
            /\ req'[r].res = "ok"
            /\ db'[req[r].task.ID].Status = "canceled"]_vars

\* A Cancel by the creator of a task of another assignee was answered with
\* the task, which is canceled.
C14_Witness ==
  \E r \in Reqs :
    /\ Answered(r, "cancel", "ok")
    /\ db[req[r].arg] # NoTask /\ db[req[r].arg].Status = "canceled"
    /\ req[r].actor = db[req[r].arg].CreatedBy
    /\ req[r].actor # db[req[r].arg].Assignee

Terminal == {"completed", "canceled", "failed"}

\* C15 as stated: a Cancel of a task in completed, canceled or failed is
\* answered with a validation error and nothing changes, whoever asks.
C15_TerminalCancel ==
  [][\A r \in Reqs, a \in Actors, k \in Ids :
       (CancelRead(r, a, k) /\ db[k] # NoTask /\ db[k].Status \in Terminal)
       => Refused(r, {"validation"})]_vars

\* C15 amended: a Cancel by the assignee or the creator of a task in
\* completed, canceled or failed is answered with a validation error, a
\* Cancel by anyone else with Forbidden; in both cases nothing changes.
C15_TerminalCancelByOwner ==
  [][\A r \in Reqs, a \in Actors, k \in Ids :
       (CancelRead(r, a, k) /\ db[k] # NoTask /\ db[k].Status \in Terminal)
       => IF Authorized(a, k) THEN Refused(r, {"validation"})
                              ELSE Refused(r, {"forbidden"})]_vars

\* A Cancel of a completed task by its assignee was answered with a
\* validation error; the task is still completed.
C15_Witness ==
  \E r \in Reqs :
    /\ Answered(r, "cancel", "validation")
    /\ db[req[r].arg] # NoTask /\ db[req[r].arg].Status = "completed"
    /\ req[r].actor = db[req[r].arg].Assignee

\* The tasks whose delete_at is set and earlier than t.
Overdue(store, t) ==
  {k \in Ids : store[k] # NoTask /\ store[k].DeleteAt # NULL /\ store[k].DeleteAt < t}

Removed(k) == db[k] # NoTask /\ db'[k] = NoTask

\* C16 as stated: a task leaves the store only in the delete of a sweep,
\* and every task that leaves, by the cascade of the foreign keys too, had
\* a delete_at earlier than the now of that sweep.
C16_OnlyExpiredDeleted ==
  [][\A k \in Ids :
       Removed(k) => /\ sweep.pc = "delete" /\ sweep.now <= now
                     /\ k \in Overdue(db, sweep.now)]_vars

\* C16 amended: a task leaves the store only in the delete of a sweep, and
\* every task that leaves had a delete_at earlier than the now of that
\* sweep or names, as its parent or its root, a task that leaves with it.
C16_ExpiredOrCascaded ==
  [][\A k \in Ids :
       Removed(k) => /\ sweep.pc = "delete" /\ sweep.now <= now
                     /\ \/ k \in Overdue(db, sweep.now)
                        \/ db[k].ParentTaskID # NULL /\ Removed(db[k].ParentTaskID)
                        \/ db[k].RootTaskID \notin {NULL, k} /\ Removed(db[k].RootTaskID)]_vars

\* The sweeper has deleted an expired task and, with it, a child of that
\* task whose delete_at lies in the future.
C16_Witness ==
  \E p, c \in Ids :
    /\ gone[p] # NoTask /\ gone[p].DeleteAt < now
    /\ gone[c] # NoTask /\ gone[c].ParentTaskID = p /\ gone[c].DeleteAt > now

\* C17: when the delete of a sweep has gone through, no task with a
\* delete_at earlier than the now of that sweep is left; a sweep that counts
\* no such task ends there and the store is as before.
C17_SweepRemovesExpired ==
  [][/\ SweepDelete => Overdue(db', sweep.now) = {}
     /\ (SweepCount /\ Overdue(db, now) = {}) => (db' = db /\ sweep' = NoSweep)]_vars

\* A sweep has deleted an expired task and left a task that is not expired.
C17_Witness ==
  /\ sweep.pc = "idle"
  /\ \E k \in Ids : gone[k] # NoTask /\ gone[k].DeleteAt < now /\ db[k] = NoTask
  /\ \E k \in Ids : db[k] # NoTask /\ db[k].DeleteAt >= now
  /\ Overdue(db, now) = {}

\* C18: every parent_task_id and root_task_id in the store names a task in
\* the store, and a task leaves the store together with all its descendants.
C18_NoOrphans ==
  /\ [](\A k \in Ids :
          db[k] # NoTask =>
            /\ db[k].ParentTaskID # NULL => db[db[k].ParentTaskID] # NoTask
            /\ db[k].RootTaskID # NULL => db[db[k].RootTaskID] # NoTask)
  /\ [][\A k \in Ids :
          Removed(k) => \A d \in Descendants(db, k) : Removed(d)]_vars

\* A task and its child have left the store together, the child not being
\* expired itself.
C18_Witness ==
  \E p, c \in Ids :
    /\ gone[p] # NoTask /\ db[p] = NoTask
    /\ gone[c] # NoTask /\ db[c] = NoTask
    /\ gone[c].ParentTaskID = p /\ gone[c].RootTaskID = p
    /\ gone[c].DeleteAt > MaxNow

\* C19: a task the sweeper has deleted is never in the store again.
C19_NoResurrection ==
  \A k \in Ids : gone[k] # NoTask => db[k] = NoTask

Finishes(r) == req[r].pc # "done" /\ req'[r].pc = "done" /\ req'[r].res = "ok"

\* C21: when a create, or a complete or cancel whose rollup returns the
\* parent to submitted, has finished, the assignee of the task that became
\* submitted is in the index.
C21_SubmittedIndexed ==
  [][\A r \in Reqs : Finishes(r) =>
       \A k \in Ids :
         (/\ db'[k] # NoTask
          /\ db'[k].Status = StatusSubmitted
          /\ \/ req[r].op = "create" /\ k = req[r].task.ID
             \/ db[k] # NoTask /\ db[k].Status # StatusSubmitted)
         => db'[k].Assignee \in index']_vars

\* C22: a complete or cancel that leaves an actor without a task in
\* submitted, working or waiting removes the actor from the index, and it
\* removes no actor who still has such a task.
C22_IdleRemoved ==
  [][\A r \in Reqs :
       (Finishes(r) /\ req[r].op \in {"complete", "cancel"}) =>
         /\ \A a \in ActiveUsers(db) \ ActiveUsers(db') : a \notin index'
         /\ \A a \in ActiveUsers(db') \cap index : a \in index']_vars

\* C23: a notification is pushed only for a task that is committed in
\* status submitted: the transaction that made it submitted has committed.
C23_NotifyAfterCommit ==
  [][\A m \in notified' \ notified :
       db'[m.task] # NoTask /\ db'[m.task].Status = StatusSubmitted]_vars

\* C24: a create that answers with an error leaves no row of the task it
\* was creating (and so no change of the parent made for it).
C24_FailedCreateLeavesNothing ==
  [][\A r \in Reqs :
       (/\ req[r].op = "create" /\ req[r].pc # "done"
        /\ req'[r].pc = "done" /\ req'[r].res # "ok"
        /\ req[r].task.ID # NULL)
       => db'[req[r].task.ID] = NoTask]_vars

\* C28: the failure of a notification, which the handler records in
\* c.Errors, does not end the request: the create has stored the task and
\* goes on to its next statement, the cancel keeps its writes and goes on to
\* the commit; and a request with such a failure that answers 200 has its
\* task stored as the answer says.
C28_NotifyFailureIgnored ==
  [][\A r \in Reqs :
       /\ (req'[r].errs /\ ~req[r].errs) =>
            /\ req'[r].pc \in {"create_root", "create_wait", "commit"}
            /\ req'[r].op = "create" =>
                 /\ db'[req'[r].task.ID] = req'[r].task
                 /\ req'[r].task.Status = StatusSubmitted
            /\ req'[r].op = "cancel" =>
                 /\ pend'[req'[r].task.ID] =
                      [owner |-> r, row |-> [req[r].task EXCEPT !.Status = StatusCanceled]]
                 /\ pend'[req'[r].task.ParentTaskID].owner = r
                 /\ pend'[req'[r].task.ParentTaskID].row.Status = StatusSubmitted
       /\ (req[r].errs /\ Finishes(r)) =>
            /\ db'[req[r].task.ID] # NoTask
            /\ req[r].op = "cancel" =>
                 /\ db'[req[r].task.ID].Status = StatusCanceled
                 /\ db'[req[r].task.ParentTaskID].Status = StatusSubmitted]_vars

\* A cancel whose notification for the parent failed is about to commit.
C28_Witness ==
  \E r \in Reqs :
    /\ req[r].errs /\ req[r].op = "cancel" /\ req[r].pc = "commit"
    /\ \A m \in notified : m.task # req[r].task.ParentTaskID

\* C25: the shutdown does not close the store connection, and the process
\* does not exit, while a sweep or a synchronisation of the cache is running.
C25_ShutdownWaits ==
  main \in {"closeredis", "return", "exited"} => sweep.pc = "idle" /\ sync.pc = "idle"

\* C26: no step changes the id, created_at, created_by, assignee,
\* description or parent_task_id of a row that exists, and root_task_id
\* changes only from null to the row's own id.
C26_Immutable ==
  [][\A k \in Ids :
       (db[k] # NoTask /\ db'[k] # NoTask) =>
         /\ db'[k].ID = db[k].ID
         /\ db'[k].CreatedAt = db[k].CreatedAt
         /\ db'[k].CreatedBy = db[k].CreatedBy
         /\ db'[k].Assignee = db[k].Assignee
         /\ db'[k].Description = db[k].Description
         /\ db'[k].ParentTaskID = db[k].ParentTaskID
         /\ \/ db'[k].RootTaskID = db[k].RootTaskID
            \/ db[k].RootTaskID = NULL /\ db'[k].RootTaskID = k]_vars

\* C27: a sweep that fails deletes nothing, a synchronisation that fails
\* leaves the index as it was, and each loop is back waiting for its next
\* tick, the process running as before.
C27_FailureChangesNothing ==
  [][/\ SweepError =>
          /\ db' = db /\ gone' = gone /\ index' = index
          /\ sweep' = NoSweep /\ main' = main
     /\ SyncError =>
          /\ db' = db /\ index' = index
          /\ sync' = NoSync /\ main' = main]_vars

\* A sweep is about to delete expired tasks, with a store it can fail on,
\* while the index holds an actor.
C27_Witness ==
  /\ sweep.pc = "delete" /\ sync.pc = "idle"
  /\ Expired(db, sweep.now) # {}
  /\ index # {}
  /\ Running

RECURSIVE SumAdmitted(_, _)
SumAdmitted(key, T) ==
  IF T = {} THEN 0
  ELSE LET t == CHOOSE x \in T : TRUE
       IN admitted[key][t] + SumAdmitted(key, T \ {t})

\* C29: for every key and every instant t, the requests the limiter let
\* pass in (t - window, t] are at most limit.
C29_SlidingWindow ==
  \A key \in Keys, t \in 0..MaxNow :
    SumAdmitted(key, {x \in 0..MaxNow : t - window < x /\ x <= t}) <= limit

\* A key has used its whole limit in a window that spans two instants,
\* after a request of an earlier window.
C29_Witness ==
  \E key \in Keys, t \in 1..MaxNow :
    /\ now = t
    /\ admitted[key][t] > 0 /\ admitted[key][t - 1] > 0
    /\ SumAdmitted(key, {x \in 0..MaxNow : t - window < x /\ x <= t}) = limit
    /\ \E x \in 0..MaxNow : x <= t - window /\ admitted[key][x] > 0

\* Every task from k up to, and not including, its ancestor t is active.
RECURSIVE PathActive(_, _, _)
PathActive(store, t, k) ==
  \/ k = t
  \/ /\ k # NULL /\ store[k] # NoTask
     /\ store[k].Status \in Active
     /\ PathActive(store, t, store[k].ParentTaskID)

ActiveChildren(store, k) ==
  {c \in Ids : store[c] # NoTask /\ store[c].ParentTaskID = k /\ store[c].Status \in Active}

\* C32: a task with a child in submitted, working or waiting is in waiting
\* (a child whose create has not yet reached the update of the parent set
\* aside).
C32_ParentWaits ==
  \A k \in Ids :
    (db[k] # NoTask /\ ActiveChildren(db, k) \ BeingCreated # {})
    => db[k].Status = StatusWaiting

\* C33: no task in completed, canceled or failed has a descendant in
\* submitted, working or waiting.
C33_NoActiveUnderTerminal ==
  \A k \in Ids :
    (db[k] # NoTask /\ db[k].Status \in Terminal)
    => \A d \in Descendants(db, k) : db[d].Status \notin Active

\* C34: the write with which a create sets the root_task_id of its new root
\* task changes that column only.
C34_RootWriteOnly ==
  [][\A r \in Reqs :
       (CreateSaveRoot(r) /\ db[req[r].task.ID] # NoTask)
       => db' = [db EXCEPT ![req[r].task.ID].RootTaskID = req[r].task.ID]]_vars

\* C35: of the Complete, Fail and Cancel requests served at the same time
\* for one task that was in working, at most one is answered with success.
C35_OneCloser ==
  \A r1, r2 \in Reqs :
    (/\ r1 # r2
     /\ req[r1].pc = "done" /\ req[r1].res = "ok"
     /\ req[r2].pc = "done" /\ req[r2].res = "ok"
     /\ req[r1].op \in {"complete", "fail", "cancel"}
     /\ req[r2].op \in {"complete", "fail", "cancel"}
     /\ req[r1].arg # NULL /\ db0[req[r1].arg] # NoTask
     /\ db0[req[r1].arg].Status = StatusWorking)
    => req[r1].arg # req[r2].arg

\* C36: every task in waiting has a child that is not completed or canceled.
C36_WaitingHasOpenChild ==
  \A k \in Ids :
    (db[k] # NoTask /\ db[k].Status = StatusWaiting)
    => \E c \in Ids : /\ db[c] # NoTask /\ db[c].ParentTaskID = k
                      /\ db[c].Status \notin DoneStatuses

\* The tasks that have a child in failed.
FailedChild(store) ==
  {k \in Ids : /\ store[k] # NoTask
               /\ \E c \in Ids : /\ store[c] # NoTask /\ store[c].ParentTaskID = k
                                /\ store[c].Status = StatusFailed}

C39_CheckOrder ==
  [][\A r \in Reqs, a \in Actors, k \in Ids :
       /\ (CompleteRead(r, a, k) \/ FailRead(r, a, k)) =>
            /\ db[k] = NoTask => Refused(r, {"notfound"})
            /\ (db[k] # NoTask /\ db[k].Assignee # a) => Refused(r, {"forbidden"})
            /\ Refused(r, {"validation"}) =>
                 db[k] # NoTask /\ db[k].Assignee = a /\ db[k].Status # StatusWorking
       /\ CancelRead(r, a, k) =>
            /\ db[k] = NoTask => Refused(r, {"notfound"})
            /\ (db[k] # NoTask /\ ~Authorized(a, k)) => Refused(r, {"forbidden"})
            /\ Refused(r, {"validation"}) =>
                 db[k] # NoTask /\ Authorized(a, k) /\ db[k].Status \in Terminal]_vars

\* A Fail of a task that is not in working, by an actor who is not its
\* assignee, was answered Forbidden.
C39_Witness ==
  \E r \in Reqs :
    /\ Answered(r, "fail", "forbidden")
    /\ db[req[r].arg] # NoTask
    /\ db[req[r].arg].Status \in Terminal
    /\ db[req[r].arg].Assignee # req[r].actor

\* C37: the swap of a synchronisation keeps in the index every actor that
\* was added to it and has an active task in the store at the swap.
C37_AddNotLost ==
  [][SyncSwap =>
       \A a \in Actors : (a \in index /\ a \in ActiveUsers(db)) => a \in index']_vars

\* C31: the background loops stop cooperatively.  Once its stop channel is
\* closed a loop exits at last (or the process has ended before); a loop
\* parked in its select exits at the very step that closes the channel,
\* without another cleanup or synchronisation; and after a loop has exited
\* it stays so and no cleanup, respectively no synchronisation, starts.
C31_StopCooperative ==
  /\ (sched.stopChan = "closed") ~> (sched.loop = "exited" \/ ~Running)
  /\ (sched.stopSync = "closed") ~> (sched.syncLoop = "exited" \/ ~Running)
  /\ [][(Stop /\ SweeperBlocked) => sched'.loop = "exited"]_vars
  /\ [][(StopPeriodicSync /\ SyncerBlocked) => sched'.syncLoop = "exited"]_vars
  /\ [](sched.loop = "exited" => sweep.pc = "idle")
  /\ [](sched.syncLoop = "exited" => sync.pc = "idle")
  /\ [][sched.loop = "exited" => sched'.loop = "exited" /\ sweep' = sweep]_vars
  /\ [][sched.syncLoop = "exited" => sched'.syncLoop = "exited" /\ sync' = sync]_vars

\* Both loops have exited after their stop, the sweeper after it had removed
\* a task and the cache after a synchronisation that found a user.
C31_Witness ==
  /\ Running
  /\ sched.loop = "exited"
  /\ sched.syncLoop = "exited"
  /\ \E k \in Ids : gone[k] # NoTask
  /\ index # {}

\* C40: a repeated stop is harmless: a call of Stop with the stop channel
\* closed already, a call of StopPeriodicSync with its channel closed
\* already, and a call of StopPeriodicSync before StartPeriodicSync change
\* nothing (and so do not end the process).
C40_StopAgainHarmless ==
  [][(\/ Stop /\ sched.stopChan = "closed"
      \/ StopPeriodicSync /\ sched.stopSync = "closed"
      \/ StopPeriodicSync /\ sched.syncTicker = "nil") => UNCHANGED vars]_vars
====
